---------------------------- MODULE Spec2Model ----------------------------
(***************************************************************************)
(* PowerToys.Update.exe: the two-stage update handoff of                   *)
(* src/Update/PowerToys.Update.cpp.                                         *)
(*                                                                         *)
(* Every run of the executable is one process slot of `proc`, executing    *)
(* WinMain step by step.  The persisted UpdateState, the installer files   *)
(* on disk, the clock and the host's tray window are shared by all         *)
(* processes.                                                              *)
(*                                                                         *)
(* A string is a sequence of symbols.  A symbol is one of the characters   *)
(* the code or the command-line parser tells apart (space, quote,          *)
(* backslash, dot, the letters of the file extensions) or an opaque run    *)
(* of other characters.                                                    *)
(***************************************************************************)
EXTENDS Integers, Sequences, FiniteSets, TLC

VARIABLES
    state,       \* the persisted UpdateState record
    files,       \* the installer files that exist on disk (paths)
    now,         \* timeutil::now()
    hostWindow,  \* whether the host's tray-icon window exists
    proc         \* the process slots

vars == <<state, files, now, hostWindow, proc>>

----------------------------------------------------------------------------
(* Bounds *)

\* The clock stops advancing here.
MaxTime == 2

----------------------------------------------------------------------------
(* Characters and strings *)

SP == " "
QT == "\""
BS == "\\"
DOT == "."

\* ::towlower, on the symbols the model uses.
towlower(c) ==
    CASE c = "M" -> "m"
      [] c = "S" -> "s"
      [] c = "I" -> "i"
      [] c = "E" -> "e"
      [] c = "X" -> "x"
      [] c = "Setup" -> "setup"
      [] c = "C:" -> "c:"
      [] c = "Updates" -> "updates"
      [] OTHER -> c

\* std::transform(begin, end, begin, ::towlower)
ToLower(s) == [i \in 1..Len(s) |-> towlower(s[i])]

\* std::wstring::ends_with
EndsWith(s, suffix) ==
    /\ Len(s) >= Len(suffix)
    /\ SubSeq(s, Len(s) - Len(suffix) + 1, Len(s)) = suffix

MsiExtension == <<DOT, "m", "s", "i">>

\* The command-line tokens of cmdArg (runner/UpdateUtils.h).
UPDATE_NOW_LAUNCH_STAGE1 == <<"-update_now">>
UPDATE_NOW_LAUNCH_STAGE2 == <<"-update_now_stage_2">>
UPDATE_STAGE2_RESTART_PT == <<"restart">>
UPDATE_STAGE2_DONT_START_PT == <<"dont_start">>
UPDATE_REPORT_SUCCESS == <<"-report_success">>

\* fs::path operator/
PathJoin(dir, name) == dir \o <<BS>> \o name

\* get_pending_updates_path()
PendingUpdatesPath == <<"C:", BS, "Pending", SP, "Updates">>

\* get_module_folderpath()
ModuleFolderPath == <<"C:", BS, "Program", SP, "Files", BS, "PowerToys">>

\* get_module_filename()
ModuleFilename == PathJoin(ModuleFolderPath, <<"PowerToys", DOT, "Update", DOT, "e", "x", "e">>)

\* fs::temp_directory_path() / "PowerToys.Update.exe"
TempCopyPath == PathJoin(<<"C:", BS, "Temp">>, <<"PowerToys", DOT, "Update", DOT, "e", "x", "e">>)

\* The installer file names a release or the persisted state can carry.
Filenames ==
    { <<"setup", DOT, "m", "s", "i">>,
      <<"Setup", DOT, "M", "S", "I">>,
      <<"Setup", DOT, "e", "x", "e">> }

InstallerPaths == { PathJoin(PendingUpdatesPath, f) : f \in Filenames }

\* The file system compares names without regard to case.
SameFile(a, b) == ToLower(a) = ToLower(b)

\* fs::is_regular_file
IsRegularFile(fs, path) == \E f \in fs : SameFile(f, path)

\* fs::remove
Remove(fs, path) == { f \in fs : ~SameFile(f, path) }

----------------------------------------------------------------------------
(* The command line *)

RECURSIVE Repeat(_, _)
Repeat(c, n) == IF n <= 0 THEN <<>> ELSE <<c>> \o Repeat(c, n - 1)

RECURSIVE LeadingBackslashes(_)
LeadingBackslashes(s) ==
    IF s # <<>> /\ Head(s) = BS THEN 1 + LeadingBackslashes(Tail(s)) ELSE 0

RECURSIVE IndexOf(_, _, _)
\* The first position >= i of s holding c, or Len(s) + 1.
IndexOf(s, c, i) ==
    IF i > Len(s) THEN Len(s) + 1
    ELSE IF s[i] = c THEN i
    ELSE IndexOf(s, c, i + 1)

RECURSIVE ParseArgs(_, _, _, _)
\* CommandLineToArgvW, the arguments after the program name: spaces separate
\* arguments outside quotes, a quote toggles quoting, 2n backslashes before a
\* quote give n backslashes, 2n+1 give n backslashes and a literal quote.
ParseArgs(s, cur, inQuotes, started) ==
    IF s = <<>> THEN (IF started THEN <<cur>> ELSE <<>>)
    ELSE IF Head(s) = SP /\ ~inQuotes THEN
        (IF started THEN <<cur>> ELSE <<>>) \o ParseArgs(Tail(s), <<>>, FALSE, FALSE)
    ELSE IF Head(s) = BS THEN
        LET n == LeadingBackslashes(s)
            rest == SubSeq(s, n + 1, Len(s))
        IN  IF rest # <<>> /\ Head(rest) = QT
            THEN IF n % 2 = 0
                 THEN ParseArgs(rest, cur \o Repeat(BS, n \div 2), inQuotes, TRUE)
                 ELSE ParseArgs(Tail(rest), cur \o Repeat(BS, n \div 2) \o <<QT>>,
                                inQuotes, TRUE)
            ELSE ParseArgs(rest, cur \o Repeat(BS, n), inQuotes, TRUE)
    ELSE IF Head(s) = QT THEN ParseArgs(Tail(s), cur, ~inQuotes, TRUE)
    ELSE ParseArgs(Tail(s), cur \o <<Head(s)>>, inQuotes, TRUE)

\* CommandLineToArgvW(GetCommandLineW(), &nArgs): the program name is read up
\* to the closing quote (or the first space), the rest by ParseArgs.
CommandLineToArgvW(cl) ==
    IF cl = <<>> THEN <<>>
    ELSE IF Head(cl) = QT
    THEN LET j == IndexOf(cl, QT, 2)
         IN  <<SubSeq(cl, 2, j - 1)>> \o ParseArgs(SubSeq(cl, j + 1, Len(cl)), <<>>, FALSE, FALSE)
    ELSE LET j == IndexOf(cl, SP, 1)
         IN  <<SubSeq(cl, 1, j - 1)>> \o ParseArgs(SubSeq(cl, j + 1, Len(cl)), <<>>, FALSE, FALSE)

\* The command line ShellExecuteExW gives the new process: the quoted file,
\* then the parameters.
CommandLine(file, parameters) ==
    <<QT>> \o file \o <<QT>> \o (IF parameters = <<>> THEN <<>> ELSE <<SP>> \o parameters)

\* The restart directive of the handoff arguments.
RestartDirectiveBug(launch_powertoys) ==
    IF launch_powertoys THEN UPDATE_STAGE2_DONT_START_PT ELSE UPDATE_STAGE2_RESTART_PT
RestartDirective(launch_powertoys) ==
    IF launch_powertoys THEN UPDATE_STAGE2_RESTART_PT ELSE UPDATE_STAGE2_DONT_START_PT

\* The Stage-2 arguments InstallNewVersionStage1 builds.
Stage2Arguments(installer, launch_powertoys) ==
    UPDATE_NOW_LAUNCH_STAGE2 \o <<SP, QT>> \o installer \o <<QT, SP, QT>>
        \o ModuleFolderPath \o <<QT, SP>> \o RestartDirective(launch_powertoys)

----------------------------------------------------------------------------
(* The persisted UpdateState *)

Statuses == {"upToDate", "readyToDownload", "errorDownloading", "readyToInstall"}

\* An optional value is a sequence of at most one element.
None == <<>>
Some(x) == <<x>>

UpdateStates ==
    [state : Statuses,
     downloadedInstallerFilename : Filenames \cup {<<>>},
     githubUpdateLastCheckedDate : {None} \cup {Some(t) : t \in 0..MaxTime}]

\* The data invariant of the record.
FilenameInvariant(s) ==
    (s.downloadedInstallerFilename # <<>>) <=> (s.state = "readyToInstall")

\* The transform WinMain stores when a stage failed.
FailureStoreKeepFilename(s, t) ==
    [s EXCEPT !.githubUpdateLastCheckedDate = Some(t),
              !.state = "errorDownloading"]
FailureStoreKeepStatus(s, t) ==
    [s EXCEPT !.downloadedInstallerFilename = <<>>,
              !.githubUpdateLastCheckedDate = Some(t)]
FailureStoreNoDate(s, t) ==
    [s EXCEPT !.downloadedInstallerFilename = <<>>,
              !.state = "errorDownloading"]
FailureStore(s, t) ==
    [s EXCEPT !.downloadedInstallerFilename = <<>>,
              !.githubUpdateLastCheckedDate = Some(t),
              !.state = "errorDownloading"]

\* The transform InstallNewVersionStage2 stores after a successful install:
\* a default record, then the date and the status.
SuccessStoreKeepFilename(s, t) ==
    [s EXCEPT !.githubUpdateLastCheckedDate = Some(t),
              !.state = "upToDate"]
SuccessStore(s, t) ==
    [state |-> "upToDate",
     downloadedInstallerFilename |-> <<>>,
     githubUpdateLastCheckedDate |-> Some(t)]

----------------------------------------------------------------------------
(* Processes *)

\* The process slots.
NumProcs == 4
Procs == 1..NumProcs

IdleProc ==
    [pc |-> "idle",
     cmd |-> <<>>,          \* GetCommandLineW()
     args |-> <<>>,         \* args[0..nArgs-1], here args[1..nArgs]
     st |-> "none",         \* the status ObtainInstallerPath read
     fname |-> <<>>,        \* the filename ObtainInstallerPath read
     installer |-> None,    \* Stage 1: the resolved installer; Stage 2: installer_path
     launch |-> FALSE,      \* launch_powertoys
     result |-> FALSE,      \* what the stage function returned
     exitCode |-> 0,        \* WinMain's return value
     \* What the process did, for the properties:
     crashed |-> FALSE,     \* ended by an invalid read instead of a return
     started |-> 0,         \* the time it was started
     by |-> "none",         \* "env" or "stage1": who started it
     cycleFrom |-> "none",  \* the status the Stage 1 of its cycle read
     directive |-> FALSE,   \* whether the Stage 1 that started it saw the host's window
     queries |-> 0,         \* calls of get_github_version_info_async
     downloads |-> 0,       \* calls of download_new_version
     closes |-> 0,          \* WM_CLOSE messages sent
     launched |-> <<>>,     \* the processes and installers it started
     writes |-> <<>>,       \* the records it stored
     err |-> "none",        \* the failure it logged
     install |-> "none",    \* the installer run: none, running, ok, failed
     hadFile |-> FALSE,     \* whether the installer file existed when looked for
     window |-> FALSE,      \* whether the host's window existed at detection
     arguments |-> <<>>,    \* the handoff arguments Stage 1 built
     given |-> None,        \* the installer path as Stage 2 received it
     branch |-> "none",     \* the installer technology dispatched to: msi, bootstrapper
     hostArgs |-> <<>>,     \* the parameters of each launch request for the host
     meta |-> "none",       \* the metadata query's answer: error, noUpdate, descriptor
     downloaded |-> None,   \* the path download_new_version returned
     copied |-> FALSE,      \* whether the copy to the temp directory succeeded
     exitState |-> None,    \* the persisted record when the process ended
     exitFiles |-> {}]      \* the files on disk when the process ended

Live(q) == proc[q].pc \notin {"idle", "done"}
Quiescent == \A q \in Procs : ~Live(q)

\* The slot a new process gets: the first never used, else the first whose
\* process has ended.
FreeSlot ==
    LET idle == {q \in Procs : proc[q].pc = "idle"}
        free == IF idle # {} THEN idle ELSE {q \in Procs : ~Live(q)}
    IN  CHOOSE q \in free : \A r \in free : q <= r

\* args[i] of WinMain
Arg(a, i) == a[i + 1]

Set(p, r) == proc' = [proc EXCEPT ![p] = r]

\* The command lines the environment starts the executable with.
EnvCommandLines ==
    { CommandLine(ModuleFilename, <<>>),
      CommandLine(ModuleFilename, UPDATE_NOW_LAUNCH_STAGE1),
      CommandLine(ModuleFilename, <<"-bogus">>),
      CommandLine(TempCopyPath, UPDATE_NOW_LAUNCH_STAGE2) }
    \cup { CommandLine(TempCopyPath, Stage2Arguments(i, l)) :
              i \in InstallerPaths, l \in BOOLEAN }

\* What a read past the end of args can yield.
GarbageStrings == InstallerPaths \cup {<<"?">>}

Init ==
    /\ state \in {s \in UpdateStates :
                    /\ FilenameInvariant(s)
                    /\ s.githubUpdateLastCheckedDate \in {None, Some(0)}}
    /\ files \in SUBSET InstallerPaths
    /\ now = 1
    /\ hostWindow \in BOOLEAN
    /\ proc = [q \in Procs |-> IdleProc]

\* The clock advances.
Tick ==
    /\ now < MaxTime
    /\ now' = now + 1
    /\ UNCHANGED <<state, files, hostWindow, proc>>

\* The environment starts the executable while no other run of it is live.
Invoke(cl) ==
    /\ Quiescent
    /\ proc' = [q \in Procs |->
                  IF q = 1
                  THEN [IdleProc EXCEPT !.pc = "WinMain", !.cmd = cl,
                                        !.started = now, !.by = "env"]
                  ELSE IdleProc]
    /\ UNCHANGED <<state, files, now, hostWindow>>

----------------------------------------------------------------------------
(* WinMain: argument parsing and dispatch *)

\* The process ends: WinMain returns code.
Exit(r, code) ==
    [r EXCEPT !.pc = "done", !.exitCode = code,
              !.exitState = Some(state), !.exitFiles = files]

\* What WinMain returns for an action that is neither stage.
UnrecognizedActionCode == 0

\* Line 232: args[4] == std::wstring_view{ UPDATE_STAGE2_RESTART_PT }
RestartRequestedSwapped(arg) == arg = UPDATE_STAGE2_DONT_START_PT
RestartRequested(arg) == arg = UPDATE_STAGE2_RESTART_PT

\* Lines 203-216, 229-232 and 244: parse the command line, leave on too few
\* arguments, and dispatch on args[1].  Stage 2 reads args[2], args[3] and
\* args[4] without a look at nArgs: with fewer than five arguments the reads
\* are past the end of the array, and the process crashes or goes on with
\* whatever the reads yield.
WinMainEntry(p) ==
    LET r == proc[p]
        args == CommandLineToArgvW(r.cmd)
        nArgs == Len(args)
        q == [r EXCEPT !.args = args]
    IN  /\ r.pc = "WinMain"
        /\ \/ /\ nArgs < 2
              /\ Set(p, Exit(q, 1))
           \/ /\ nArgs >= 2
              /\ Arg(args, 1) = UPDATE_NOW_LAUNCH_STAGE1
              /\ Set(p, [q EXCEPT !.pc = "ObtainInstallerPath"])
           \/ /\ nArgs >= 5
              /\ Arg(args, 1) = UPDATE_NOW_LAUNCH_STAGE2
              /\ Set(p, [q EXCEPT !.pc = "Stage2",
                                  !.installer = Some(Arg(args, 2)),
                                  !.launch = RestartRequested(Arg(args, 4))])
           \/ /\ nArgs >= 2 /\ nArgs < 5
              /\ Arg(args, 1) = UPDATE_NOW_LAUNCH_STAGE2
              /\ \/ Set(p, [Exit(q, 1) EXCEPT !.crashed = TRUE])
                 \/ \E g \in GarbageStrings, l \in BOOLEAN :
                       Set(p, [q EXCEPT !.pc = "Stage2",
                                        !.installer = Some(IF nArgs >= 3 THEN Arg(args, 2) ELSE g),
                                        !.launch = l])
           \/ /\ nArgs >= 2
              /\ Arg(args, 1) \notin {UPDATE_NOW_LAUNCH_STAGE1, UPDATE_NOW_LAUNCH_STAGE2}
              /\ Set(p, Exit(q, UnrecognizedActionCode))
        /\ UNCHANGED <<state, files, now, hostWindow>>

----------------------------------------------------------------------------
(* ObtainInstallerPath *)

\* The installer path of a readyToInstall state.
PendingInstaller(fname) == PathJoin(PendingUpdatesPath, fname)

\* The statuses for which the resolver downloads.
DownloadStatusesWide == {"readyToDownload", "errorDownloading", "upToDate"}
DownloadStatusesNarrow == {"readyToDownload"}
DownloadStatuses == {"readyToDownload", "errorDownloading"}

\* The resolver fails: InstallNewVersionStage1 returns false.
ResolverFails(r, e) == [r EXCEPT !.pc = "Stage1Return", !.result = FALSE, !.err = e]

\* Line 56 and the branch on the status read.
ReadState(p) ==
    LET r == [proc[p] EXCEPT !.st = state.state,
                             !.fname = state.downloadedInstallerFilename,
                             !.cycleFrom = state.state]
    IN  /\ proc[p].pc = "ObtainInstallerPath"
        /\ \/ /\ state.state \in DownloadStatuses
              /\ Set(p, [r EXCEPT !.pc = "GetVersionInfo"])
           \/ /\ state.state \notin DownloadStatuses
              /\ state.state = "readyToInstall"
              /\ Set(p, [r EXCEPT !.pc = "CheckInstaller"])
           \/ /\ state.state \notin DownloadStatuses
              /\ state.state # "readyToInstall"
              /\ Set(p, ResolverFails(r, "InvalidStateForInstall"))
        /\ UNCHANGED <<state, files, now, hostWindow>>

\* Lines 59-70: the release metadata query, which fails, finds no update, or
\* gives a download descriptor.
GetVersionInfo(p) ==
    LET r == [proc[p] EXCEPT !.queries = @ + 1]
    IN  /\ proc[p].pc = "GetVersionInfo"
        /\ \/ Set(p, ResolverFails([r EXCEPT !.meta = "error"], "MetadataUnavailable"))
           \/ Set(p, ResolverFails([r EXCEPT !.meta = "noUpdate"], "NoUpdateAvailable"))
           \/ Set(p, [r EXCEPT !.pc = "Download", !.meta = "descriptor"])
        /\ UNCHANGED <<state, files, now, hostWindow>>

\* Lines 72-78: the download, which fails or leaves the installer on disk.
Download(p) ==
    LET r == [proc[p] EXCEPT !.downloads = @ + 1]
    IN  /\ proc[p].pc = "Download"
        /\ \/ /\ Set(p, ResolverFails(r, "DownloadFailed"))
              /\ files' = files
           \/ \E f \in Filenames :
                 /\ Set(p, [r EXCEPT !.pc = "CopySelf",
                                     !.downloaded = Some(PendingInstaller(f)),
                                     !.installer = Some(PendingInstaller(f))])
                 /\ files' = files \cup {PendingInstaller(f)}
        /\ UNCHANGED <<state, now, hostWindow>>

\* Lines 82-91: the downloaded installer must be on disk.
CheckInstaller(p) ==
    LET installer == PendingInstaller(proc[p].fname)
        r == [proc[p] EXCEPT !.hadFile = IsRegularFile(files, installer)]
    IN  /\ r.pc = "CheckInstaller"
        /\ \/ /\ IsRegularFile(files, installer)
              /\ Set(p, [r EXCEPT !.pc = "CopySelf", !.installer = Some(installer)])
           \/ /\ ~IsRegularFile(files, installer)
              /\ Set(p, ResolverFails(r, "MissingDownloadedInstaller"))
        /\ UNCHANGED <<state, files, now, hostWindow>>

----------------------------------------------------------------------------
(* InstallNewVersionStage1 *)

\* The host's tray window handles WM_CLOSE by destroying itself.
HostOnClose(w) == FALSE

\* Lines 39-50 and 108, 133-136: the copy of the executable to the temp
\* directory, which can fail.
CopySelfIgnoresFailure(p) ==
    LET r == proc[p]
    IN  /\ r.pc = "CopySelf"
        /\ \/ Set(p, [r EXCEPT !.pc = "FindWindow", !.copied = TRUE])
           \/ Set(p, [r EXCEPT !.pc = "FindWindow", !.err = "SelfCopyFailed"])
        /\ UNCHANGED <<state, files, now, hostWindow>>
CopySelf(p) ==
    LET r == proc[p]
    IN  /\ r.pc = "CopySelf"
        /\ \/ Set(p, [r EXCEPT !.pc = "FindWindow", !.copied = TRUE])
           \/ Set(p, [r EXCEPT !.pc = "Stage1Return", !.result = FALSE,
                               !.err = "SelfCopyFailed"])
        /\ UNCHANGED <<state, files, now, hostWindow>>

\* Lines 111-116: detect the host's window and ask it to close.
FindWindow(p) ==
    LET r == [proc[p] EXCEPT !.window = hostWindow]
    IN  /\ r.pc = "FindWindow"
        /\ \/ /\ hostWindow
              /\ Set(p, [r EXCEPT !.pc = "LaunchStage2", !.launch = TRUE,
                                  !.closes = @ + 1])
              /\ hostWindow' = HostOnClose(hostWindow)
           \/ /\ ~hostWindow
              /\ Set(p, [r EXCEPT !.pc = "LaunchStage2", !.launch = FALSE])
              /\ hostWindow' = hostWindow
        /\ UNCHANGED <<state, files, now>>

\* The process ShellExecuteExW starts from Stage 1.
Stage2Process(r) ==
    [IdleProc EXCEPT !.pc = "WinMain",
                     !.cmd = CommandLine(TempCopyPath, r.arguments),
                     !.started = now,
                     !.by = "stage1",
                     !.cycleFrom = r.cycleFrom,
                     !.directive = r.window]

\* Lines 118-131: build the handoff arguments and request the launch of the
\* copy; the request is accepted (the new process exists) or fails.
LaunchStage2(p) ==
    LET r == [proc[p] EXCEPT
                !.arguments = Stage2Arguments(proc[p].installer[1], proc[p].launch)]
    IN  /\ proc[p].pc = "LaunchStage2"
        /\ \/ /\ \E q \in Procs : ~Live(q)
              /\ proc' = [proc EXCEPT
                            ![p] = [r EXCEPT !.pc = "Stage1Return", !.result = TRUE,
                                             !.launched = Append(@, "stage2")],
                            ![FreeSlot] = Stage2Process(r)]
           \/ Set(p, [r EXCEPT !.pc = "Stage1Return", !.result = FALSE,
                               !.err = "ElevationLaunchFailed"])
        /\ UNCHANGED <<state, files, now, hostWindow>>

\* WinMain after a stage returned: a failed stage stores the failure; the
\* exit code is `failed`.
StageReturned(p) ==
    LET r == proc[p]
        failed == ~r.result
    IN  IF failed
        THEN /\ state' = FailureStore(state, now)
             /\ Set(p, [Exit(r, 1) EXCEPT !.writes = Append(@, state'),
                                          !.exitState = Some(state')])
        ELSE /\ state' = state
             /\ Set(p, Exit(r, 0))

\* Lines 218-227.
Stage1ReturnWaits(p) ==
    /\ proc[p].pc = "Stage1Return"
    /\ proc[p].result =>
          \A q \in Procs : proc[q].by = "stage1" => proc[q].pc = "done"
    /\ StageReturned(p)
    /\ UNCHANGED <<files, now, hostWindow>>
Stage1Return(p) ==
    /\ proc[p].pc = "Stage1Return"
    /\ StageReturned(p)
    /\ UNCHANGED <<files, now, hostWindow>>

----------------------------------------------------------------------------
(* InstallNewVersionStage2 *)

\* Line 145: the dispatch on the extension.
IsMsiNoLower(installer_path) == EndsWith(installer_path, MsiExtension)
IsMsi(installer_path) == EndsWith(ToLower(installer_path), MsiExtension)

\* Line 147: MsiInstallProductW(...) == ERROR_SUCCESS
MsiSucceededInverted(ret) == ret # "ERROR_SUCCESS"
MsiSucceeded(ret) == ret = "ERROR_SUCCESS"

\* Line 167: exitCode == 0
BootstrapperSucceededLax(exitCode) == exitCode # 1
BootstrapperSucceeded(exitCode) == exitCode = 0

\* Lines 172-175: a failed installer ends the stage.
AfterInstallerContinues(r, success, ran) ==
    [r EXCEPT !.pc = "Remove", !.install = ran]
AfterInstaller(r, success, ran) ==
    IF success
    THEN [r EXCEPT !.pc = "Remove", !.install = ran]
    ELSE [r EXCEPT !.pc = "Stage2Return", !.result = FALSE, !.install = ran,
                   !.err = "InstallerExecutionFailed"]

\* Lines 141-159: lower-case the path and start the installer: the package
\* API for an .msi, else the bootstrapper, whose launch can fail.
Stage2Dispatch(p) ==
    LET r == proc[p]
        installer_path == ToLower(r.installer[1])
        q == [r EXCEPT !.installer = Some(installer_path),
                       !.given = r.installer,
                       !.hadFile = IsRegularFile(files, r.installer[1])]
    IN  /\ r.pc = "Stage2"
        /\ \/ /\ IsMsi(r.installer[1])
              /\ Set(p, [q EXCEPT !.pc = "MsiRunning", !.install = "running",
                                  !.branch = "msi",
                                  !.launched = Append(@, "msi")])
           \/ /\ ~IsMsi(r.installer[1])
              /\ IsRegularFile(files, installer_path)
              /\ Set(p, [q EXCEPT !.pc = "WaitInstaller", !.install = "running",
                                  !.branch = "bootstrapper",
                                  !.launched = Append(@, "bootstrapper")])
           \/ /\ ~IsMsi(r.installer[1])
              /\ Set(p, AfterInstaller([q EXCEPT !.branch = "bootstrapper"],
                                       FALSE, "failed"))
        /\ UNCHANGED <<state, files, now, hostWindow>>

\* Line 147: the package API returns; it cannot succeed without the package.
MsiReturns(p) ==
    LET r == proc[p]
    IN  /\ r.pc = "MsiRunning"
        /\ \E ret \in {"ERROR_SUCCESS", "ERROR_INSTALL_FAILURE"} :
              /\ ret = "ERROR_SUCCESS" => IsRegularFile(files, r.installer[1])
              /\ Set(p, AfterInstaller(r, MsiSucceeded(ret),
                                       IF ret = "ERROR_SUCCESS" THEN "ok" ELSE "failed"))
        /\ UNCHANGED <<state, files, now, hostWindow>>

\* Lines 164-168: the bootstrapper exits with some code.
BootstrapperExitsOrTimesOut(p) ==
    LET r == proc[p]
    IN  /\ r.pc = "WaitInstaller"
        /\ \/ \E exitCode \in {0, 1, 1603} :
                 Set(p, AfterInstaller(r, BootstrapperSucceeded(exitCode),
                                       IF exitCode = 0 THEN "ok" ELSE "failed"))
           \/ Set(p, AfterInstaller(r, FALSE, "running"))
        /\ UNCHANGED <<state, files, now, hostWindow>>
BootstrapperExits(p) ==
    LET r == proc[p]
    IN  /\ r.pc = "WaitInstaller"
        /\ \E exitCode \in {0, 1, 1603} :
              Set(p, AfterInstaller(r, BootstrapperSucceeded(exitCode),
                                    IF exitCode = 0 THEN "ok" ELSE "failed"))
        /\ UNCHANGED <<state, files, now, hostWindow>>

\* Lines 177-178: the installer file is removed, or the removal fails and is
\* ignored.
RemoveInstaller(p) ==
    LET r == proc[p]
    IN  /\ r.pc = "Remove"
        /\ \/ files' = Remove(files, r.installer[1])
           \/ files' = files
        /\ Set(p, [r EXCEPT !.pc = "Store"])
        /\ UNCHANGED <<state, now, hostWindow>>

\* Lines 180-184.
StoreUpToDate(p) ==
    LET r == proc[p]
    IN  /\ r.pc = "Store"
        /\ state' = SuccessStore(state, now)
        /\ Set(p, [r EXCEPT !.pc = "Relaunch", !.writes = Append(@, state')])
        /\ UNCHANGED <<files, now, hostWindow>>

\* Lines 186-198: start the host again when the directive asks for it; the
\* launch request can fail.
RelaunchHost(p) ==
    LET r == proc[p]
    IN  /\ r.pc = "Relaunch"
        /\ \/ /\ r.launch
              /\ Set(p, [r EXCEPT !.pc = "Stage2Return", !.result = TRUE,
                                  !.hostArgs = Append(@, UPDATE_REPORT_SUCCESS),
                                  !.launched = Append(@, "host")])
              /\ hostWindow' = TRUE
           \/ /\ r.launch
              /\ Set(p, [r EXCEPT !.pc = "Stage2Return", !.result = FALSE,
                                  !.hostArgs = Append(@, UPDATE_REPORT_SUCCESS),
                                  !.err = "RestartLaunchFailed"])
              /\ hostWindow' = hostWindow
           \/ /\ ~r.launch
              /\ Set(p, [r EXCEPT !.pc = "Stage2Return", !.result = TRUE])
              /\ hostWindow' = hostWindow
        /\ UNCHANGED <<state, files, now>>

\* Lines 232-241.
Stage2ReturnRetries(p) ==
    /\ proc[p].pc = "Stage2Return"
    /\ IF proc[p].result
       THEN StageReturned(p)
       ELSE /\ Set(p, [proc[p] EXCEPT !.pc = "Stage2"])
            /\ state' = state
    /\ UNCHANGED <<files, now, hostWindow>>
Stage2Return(p) ==
    /\ proc[p].pc = "Stage2Return"
    /\ StageReturned(p)
    /\ UNCHANGED <<files, now, hostWindow>>

----------------------------------------------------------------------------
(* The specification *)

Step(p) ==
    \/ WinMainEntry(p)
    \/ ReadState(p)
    \/ GetVersionInfo(p)
    \/ Download(p)
    \/ CheckInstaller(p)
    \/ CopySelf(p)
    \/ FindWindow(p)
    \/ LaunchStage2(p)
    \/ Stage1Return(p)
    \/ Stage2Dispatch(p)
    \/ MsiReturns(p)
    \/ BootstrapperExits(p)
    \/ RemoveInstaller(p)
    \/ StoreUpToDate(p)
    \/ RelaunchHost(p)
    \/ Stage2Return(p)

Next ==
    \/ Tick
    \/ \E cl \in EnvCommandLines : Invoke(cl)
    \/ \E p \in Procs : Step(p)

Spec == Init /\ [][Next]_vars

\* The callers that may start Stage 1 without regard to each other.
Callers == {"callerA", "callerB"}

\* A caller starts Stage 1, once, whatever else is running.
InvokeStage1(c) ==
    /\ \A q \in Procs : proc[q].by # c
    /\ \E q \in Procs : proc[q].pc = "idle"
    /\ Set(FreeSlot, [IdleProc EXCEPT
                        !.pc = "WinMain",
                        !.cmd = CommandLine(ModuleFilename, UPDATE_NOW_LAUNCH_STAGE1),
                        !.started = now,
                        !.by = c])
    /\ UNCHANGED <<state, files, now, hostWindow>>

\* The callers start Stage 1 for a downloaded bootstrapper, with the host
\* running and the pending updates directory full.
ConcInit ==
    /\ Init
    /\ state.state = "readyToInstall"
    /\ ~IsMsi(state.downloadedInstallerFilename)
    /\ state.githubUpdateLastCheckedDate = None
    /\ hostWindow
    /\ files = InstallerPaths

ConcNext ==
    \/ \E c \in Callers : InvokeStage1(c)
    \/ \E p \in Procs : Step(p)

\* Stage 1 started by callers that do not wait for each other.
ConcSpec == ConcInit /\ [][ConcNext]_vars

\* A step of a running Stage 2, the end of its installer run included.
Stage2Step ==
    \E p \in Procs :
        \/ Stage2Dispatch(p)
        \/ MsiReturns(p)
        \/ BootstrapperExits(p)
        \/ RemoveInstaller(p)
        \/ StoreUpToDate(p)
        \/ RelaunchHost(p)
        \/ Stage2Return(p)

\* The update starts with the host running, no check recorded yet, and the
\* pending updates directory empty or full.
FairInit ==
    /\ Init
    /\ state.githubUpdateLastCheckedDate = None
    /\ hostWindow
    /\ files \in {{}, InstallerPaths}

\* A Stage 2 that was started keeps running and an installer that was
\* started exits: Stage 2 does not stand still forever while it can take a
\* step.
FairSpec == FairInit /\ [][Next]_vars /\ WF_vars(Stage2Step)

TypeOK ==
    /\ state \in UpdateStates
    /\ files \subseteq InstallerPaths
    /\ now \in 1..MaxTime
    /\ hostWindow \in BOOLEAN

----------------------------------------------------------------------------
(* Properties *)

Ended(p) == proc[p].pc = "done"
Entered(p) == proc[p].pc \notin {"idle", "WinMain"}
IsStage1(p) ==
    /\ Entered(p)
    /\ Len(proc[p].args) >= 2
    /\ Arg(proc[p].args, 1) = UPDATE_NOW_LAUNCH_STAGE1
IsStage2(p) ==
    /\ Entered(p)
    /\ Len(proc[p].args) >= 2
    /\ Arg(proc[p].args, 1) = UPDATE_NOW_LAUNCH_STAGE2

\* The invocation names no stage, or has too few arguments for its action.
Malformed(p) ==
    /\ Entered(p)
    /\ \/ ~IsStage1(p) /\ ~IsStage2(p)
       \/ IsStage2(p) /\ Len(proc[p].args) < 5

\* C1: a malformed invocation (an action that is neither stage token, or too
\* few arguments for its action) exits with code 1, writes no persisted
\* state and launches no process.
C1_MalformedExitsOne ==
    \A p \in Procs :
        Malformed(p) =>
            /\ proc[p].writes = <<>>
            /\ proc[p].launched = <<>>
            /\ Ended(p) => (proc[p].exitCode = 1 /\ ~proc[p].crashed)

\* The record a process left when it ended.
ExitState(p) == proc[p].exitState[1]

\* The time of a record's date is not before the process started.
Refreshed(p, s) ==
    /\ s.githubUpdateLastCheckedDate # None
    /\ s.githubUpdateLastCheckedDate[1] >= proc[p].started

\* C2: in Stage 2, after a successful install and the write of upToDate, a
\* failed host relaunch shows in the exit code only: when the process ends
\* the persisted status is still upToDate.
C2_RestartFailureKeepsUpToDate ==
    \A p \in Procs :
        (Ended(p) /\ IsStage2(p) /\ proc[p].err = "RestartLaunchFailed") =>
            /\ proc[p].exitCode = 1
            /\ ExitState(p).state = "upToDate"

\* C3: a Stage-2 invocation whose installer run succeeded ends, for both
\* restart directives, with status upToDate, an empty filename, a refreshed
\* date, and the installer file gone.
C3_SuccessLeavesUpToDate ==
    \A p \in Procs :
        (Ended(p) /\ IsStage2(p) /\ proc[p].install = "ok") =>
            /\ ExitState(p).state = "upToDate"
            /\ ExitState(p).downloadedInstallerFilename = <<>>
            /\ Refreshed(p, ExitState(p))
            /\ ~IsRegularFile(proc[p].exitFiles, proc[p].installer[1])

\* C4: a Stage-2 invocation whose installer run failed (the package API
\* returned a failure, the bootstrapper could not be launched, or it exited
\* with a non-zero code) ends with status errorDownloading, an empty
\* filename, the installer file not deleted, the host not relaunched, and
\* exit code 1.
C4_InstallerFailure ==
    \A p \in Procs :
        (Ended(p) /\ IsStage2(p) /\ proc[p].install = "failed") =>
            /\ ExitState(p).state = "errorDownloading"
            /\ ExitState(p).downloadedInstallerFilename = <<>>
            /\ proc[p].hadFile => IsRegularFile(proc[p].exitFiles, proc[p].installer[1])
            /\ \A i \in 1..Len(proc[p].launched) : proc[p].launched[i] # "host"
            /\ proc[p].exitCode = 1

\* C4's case: a bootstrapper that was on disk ran and failed, in a cycle that
\* began with a downloaded installer.
C4_Witness ==
    \E p \in Procs :
        /\ Ended(p) /\ IsStage2(p) /\ proc[p].install = "failed"
        /\ proc[p].launched = <<"bootstrapper">>
        /\ proc[p].hadFile
        /\ proc[p].cycleFrom = "readyToInstall"
        /\ proc[p].launch

\* The Stage-2 process of an update cycle: the one a Stage 1 launched.
InCycle(p) == proc[p].by = "stage1"

\* C5: in an update cycle started from a status other than upToDate, the
\* persisted status is never upToDate while the cycle's installer is running
\* or after it has failed.
C5_UpToDateOnlyAfterSuccess ==
    \A p \in Procs :
        (InCycle(p) /\ proc[p].cycleFrom # "upToDate") =>
            /\ (Live(p) /\ proc[p].install \in {"running", "failed"}) =>
                   state.state # "upToDate"
            /\ (Ended(p) /\ proc[p].install = "failed") =>
                   ExitState(p).state # "upToDate"

\* C5's case: the installer of a cycle is running, and one has failed after
\* running.
C5_Witness ==
    \E p \in Procs :
        /\ InCycle(p) /\ proc[p].cycleFrom = "errorDownloading"
        /\ Live(p) /\ proc[p].install = "failed"
        /\ proc[p].launched = <<"msi">>

\* The failures of Stage 1.
Stage1Failures ==
    {"MetadataUnavailable", "NoUpdateAvailable", "DownloadFailed",
     "MissingDownloadedInstaller", "InvalidStateForInstall", "SelfCopyFailed",
     "ElevationLaunchFailed"}

\* C6: a Stage-1 invocation that fails, for whichever reason, performs
\* exactly one persisted-state write, which sets errorDownloading, clears the
\* filename and refreshes the date, and exits with code 1.
C6_Stage1FailureWritesOnce ==
    \A p \in Procs :
        (Ended(p) /\ IsStage1(p) /\ ~proc[p].result) =>
            /\ proc[p].err \in Stage1Failures
            /\ Len(proc[p].writes) = 1
            /\ proc[p].writes[1].state = "errorDownloading"
            /\ proc[p].writes[1].downloadedInstallerFilename = <<>>
            /\ Refreshed(p, proc[p].writes[1])
            /\ ExitState(p) = proc[p].writes[1]
            /\ proc[p].exitCode = 1

\* C6's case: the elevated launch failed after a download, the host closed.
C6_Witness ==
    \E p \in Procs :
        /\ Ended(p) /\ IsStage1(p) /\ ~proc[p].result
        /\ proc[p].err = "ElevationLaunchFailed"
        /\ proc[p].downloads = 1
        /\ proc[p].closes = 1

\* The resolver has returned.
Resolved(p) ==
    /\ IsStage1(p)
    /\ proc[p].pc \notin {"ObtainInstallerPath", "GetVersionInfo", "Download", "CheckInstaller"}

\* C7: for status readyToInstall the resolver returns exactly the pending
\* updates directory joined with the persisted filename when a regular file
\* is there, and fails with MissingDownloadedInstaller otherwise; for a
\* status outside {readyToDownload, errorDownloading, readyToInstall} it
\* fails with InvalidStateForInstall; in none of these cases does it query
\* the release metadata or download.
C7_ResolverReadyToInstall ==
    \A p \in Procs :
        Resolved(p) =>
            /\ (proc[p].st = "readyToInstall" /\ proc[p].hadFile) =>
                   /\ proc[p].installer =
                          Some(PendingUpdatesPath \o <<BS>> \o proc[p].fname)
                   /\ proc[p].err \notin {"MissingDownloadedInstaller", "InvalidStateForInstall"}
                   /\ proc[p].queries = 0 /\ proc[p].downloads = 0
            /\ (proc[p].st = "readyToInstall" /\ ~proc[p].hadFile) =>
                   /\ proc[p].installer = None
                   /\ proc[p].err = "MissingDownloadedInstaller"
                   /\ proc[p].queries = 0 /\ proc[p].downloads = 0
            /\ proc[p].st \notin {"readyToDownload", "errorDownloading", "readyToInstall"} =>
                   /\ proc[p].installer = None
                   /\ proc[p].err = "InvalidStateForInstall"
                   /\ proc[p].queries = 0 /\ proc[p].downloads = 0

\* C7's case: the resolver returned the path of the downloaded installer.
C7_Witness ==
    \E p \in Procs :
        /\ Resolved(p) /\ proc[p].st = "readyToInstall" /\ proc[p].hadFile
        /\ proc[p].installer # None
        /\ proc[p].installer[1] \in files
        /\ proc[p].pc = "CopySelf"

\* Stage 1 has come to the elevated launch request.
ReachedLaunch(p) ==
    /\ IsStage1(p)
    /\ proc[p].arguments # <<>>

\* The restart directive the handoff arguments carry, as the launched process
\* reads them.
CarriedDirective(arguments) ==
    Arg(CommandLineToArgvW(CommandLine(TempCopyPath, arguments)), 4)

\* C8: in a Stage 1 that reaches the elevated launch request, a host window
\* seen at detection gets exactly one close request and the handoff carries
\* restartHost; with no window no close request is sent and the handoff
\* carries doNotRestartHost.  The Stage 2 launched reads the directive Stage 1
\* computed.
C8_RestartDirective ==
    /\ \A p \in Procs :
          ReachedLaunch(p) =>
              /\ proc[p].window =>
                    /\ proc[p].closes = 1
                    /\ CarriedDirective(proc[p].arguments) = UPDATE_STAGE2_RESTART_PT
              /\ ~proc[p].window =>
                    /\ proc[p].closes = 0
                    /\ CarriedDirective(proc[p].arguments) = UPDATE_STAGE2_DONT_START_PT
    /\ \A q \in Procs :
          (InCycle(q) /\ Entered(q)) =>
              /\ IsStage2(q)
              /\ Len(proc[q].args) = 5
              /\ proc[q].launch = proc[q].directive

\* C8's case: a Stage 2 that was handed restartHost runs.
C8_Witness ==
    \E p, q \in Procs :
        /\ ReachedLaunch(p) /\ proc[p].window /\ proc[p].closes = 1
        /\ InCycle(q) /\ proc[q].pc = "Stage2" /\ proc[q].launch

\* C9 as stated: every stage1 or stage2 invocation that terminates (returns
\* from WinMain) leaves the status upToDate or errorDownloading.
C9_Original ==
    \A p \in Procs :
        (Ended(p) /\ ~proc[p].crashed /\ (IsStage1(p) \/ IsStage2(p))) =>
            ExitState(p).state \in {"upToDate", "errorDownloading"}

\* C9, amended: a stage2 invocation that returns from WinMain leaves upToDate
\* (exit code 0) or errorDownloading (exit code 1); a stage1 invocation that
\* fails leaves errorDownloading; a stage1 invocation that succeeds has
\* launched Stage 2 and written nothing.
C9_TerminalStatus ==
    \A p \in Procs :
        (Ended(p) /\ ~proc[p].crashed) =>
            /\ IsStage2(p) =>
                  \/ proc[p].exitCode = 0 /\ ExitState(p).state = "upToDate"
                  \/ proc[p].exitCode = 1 /\ ExitState(p).state = "errorDownloading"
            /\ (IsStage1(p) /\ proc[p].exitCode # 0) =>
                  /\ proc[p].exitCode = 1
                  /\ ExitState(p).state = "errorDownloading"
            /\ (IsStage1(p) /\ proc[p].exitCode = 0) =>
                  /\ proc[p].writes = <<>>
                  /\ proc[p].launched = <<"stage2">>

\* C9's case: a Stage 1 ended with success while the status is still
\* readyToInstall, and the Stage 2 it launched ended with a failure.
C9_Witness ==
    \E p, q \in Procs :
        /\ Ended(p) /\ IsStage1(p) /\ proc[p].exitCode = 0
        /\ ExitState(p).state = "readyToInstall"
        /\ Ended(q) /\ IsStage2(q) /\ InCycle(q) /\ proc[q].exitCode = 1
        /\ ExitState(q).state = "errorDownloading"

\* C10: the filename is populated if and only if the status is
\* readyToInstall, in the persisted record and in every record a process
\* stored.
C10_FilenameInvariant ==
    /\ FilenameInvariant(state)
    /\ \A p \in Procs :
          \A i \in 1..Len(proc[p].writes) : FilenameInvariant(proc[p].writes[i])

\* C10's case: a failure was stored over a readyToInstall record.
C10_Witness ==
    \E p \in Procs :
        /\ Ended(p) /\ InCycle(p) /\ proc[p].cycleFrom = "readyToInstall"
        /\ Len(proc[p].writes) = 1
        /\ proc[p].writes[1].state = "errorDownloading"

----------------------------------------------------------------------------
(* Installer dispatch *)

\* Two symbols that are the same letter in either case.
EqIgnoreCase(a, b) ==
    \/ a = b
    \/ {a, b} \in {{"m", "M"}, {"s", "S"}, {"i", "I"}, {"e", "E"}, {"x", "X"}}

\* The path ends in '.msi' in some casing.
HasMsiExtension(path) ==
    LET n == Len(path)
    IN  /\ n >= 4
        /\ path[n - 3] = DOT
        /\ EqIgnoreCase(path[n - 2], "m")
        /\ EqIgnoreCase(path[n - 1], "s")
        /\ EqIgnoreCase(path[n], "i")

\* Two paths whose last four symbols differ at most in case.
SameExtension(a, b) ==
    /\ Len(a) >= 4 /\ Len(b) >= 4
    /\ \A i \in 0..3 : EqIgnoreCase(a[Len(a) - i], b[Len(b) - i])

Range(f) == { f[i] : i \in DOMAIN f }

Dispatched(p) == proc[p].branch # "none"

\* C11: Stage 2 chooses the installer technology from the extension of the
\* path alone, without regard to case: a path ending in '.msi' in any casing
\* goes to the package API and never to the bootstrapper, every other path
\* goes to the bootstrapper, and a path with the same extension in another
\* casing is dispatched the same way.
C11_DispatchByExtension ==
    \A p \in Procs :
        Dispatched(p) =>
            LET r == proc[p]
                path == r.given[1]
            IN  /\ r.branch = "msi" <=> HasMsiExtension(path)
                /\ r.branch = "bootstrapper" <=> ~HasMsiExtension(path)
                /\ r.branch = "msi" => "bootstrapper" \notin Range(r.launched)
                /\ r.branch = "bootstrapper" => "msi" \notin Range(r.launched)
                /\ r.install # "none" /\ r.branch = "msi" => r.launched[1] = "msi"
                /\ \A b \in GarbageStrings :
                      SameExtension(b, path) => (IsMsi(b) <=> r.branch = "msi")

\* Stage 2 received '.MSI' in upper case and ran the package API.
C11_Witness ==
    \E p \in Procs :
        /\ IsStage2(p)
        /\ proc[p].branch = "msi"
        /\ proc[p].launched = <<"msi">>
        /\ EndsWith(proc[p].given[1], <<DOT, "M", "S", "I">>)

----------------------------------------------------------------------------
(* Relaunch of the host *)

\* Stage 2 with all of its arguments.
WellFormedStage2(p) == IsStage2(p) /\ Len(proc[p].args) >= 5

\* C12: the host is started, with the 'update succeeded' directive, only
\* after the installer succeeded and the state was stored as upToDate, and
\* only when the restart directive is 'restart'; with any other directive
\* no start of the host is ever requested and a successful install ends
\* with exit code 0.
C12_RelaunchOnlyAfterSuccess ==
    \A p \in Procs :
        LET r == proc[p]
        IN  /\ r.hostArgs # <<>> =>
                  /\ IsStage2(p)
                  /\ r.install = "ok"
                  /\ r.launch
                  /\ Len(r.writes) >= 1
                  /\ r.writes[1].state = "upToDate"
                  /\ r.hostArgs = <<UPDATE_REPORT_SUCCESS>>
            /\ "host" \in Range(r.launched) =>
                  /\ r.hostArgs # <<>>
                  /\ r.launched \in {<<"msi", "host">>, <<"bootstrapper", "host">>}
            /\ WellFormedStage2(p) =>
                  /\ r.launch <=> Arg(r.args, 4) = UPDATE_STAGE2_RESTART_PT
                  /\ Arg(r.args, 4) # UPDATE_STAGE2_RESTART_PT =>
                        /\ r.hostArgs = <<>>
                        /\ "host" \notin Range(r.launched)
                        /\ Ended(p) /\ r.install = "ok" => r.exitCode = 0

\* A Stage 2 told to restart the host installed, stored upToDate and
\* started the host.
C12_Witness ==
    \E p \in Procs :
        /\ WellFormedStage2(p)
        /\ Ended(p)
        /\ Arg(proc[p].args, 4) = UPDATE_STAGE2_RESTART_PT
        /\ proc[p].hostArgs = <<UPDATE_REPORT_SUCCESS>>
        /\ "host" \in Range(proc[p].launched)
        /\ proc[p].writes[1].state = "upToDate"
        /\ proc[p].exitCode = 0

----------------------------------------------------------------------------
(* The handoff *)

\* Stage 1 whose request to start Stage 2 was accepted.
HandedOff(p) == IsStage1(p) /\ "stage2" \in Range(proc[p].launched)

\* After the handoff Stage 1 only returns: it stores nothing, it is never
\* held back, and it ends with exit code 0 whatever Stage 2 does.
HandoffReturns ==
    \A p \in Procs :
        HandedOff(p) =>
            /\ proc[p].pc \in {"Stage1Return", "done"}
            /\ proc[p].writes = <<>>
            /\ proc[p].pc = "Stage1Return" => ENABLED Stage1Return(p)
            /\ Ended(p) => proc[p].exitCode = 0 /\ ~proc[p].crashed

\* After the handoff a step that changes the persisted state is a store of
\* the Stage 2 that was handed to.
HandoffWrites ==
    (/\ \E p \in Procs : HandedOff(p)
     /\ state' # state)
        => \E q \in Procs :
              /\ IsStage2(q)
              /\ InCycle(q)
              /\ proc'[q].writes = Append(proc[q].writes, state')

\* C13: Stage 1 hands off and forgets: once the request to start the
\* elevated Stage 2 is accepted, Stage 1 ends with exit code 0 without
\* waiting for Stage 2 and without storing state, so it can end while the
\* installer of Stage 2 still runs; a later failure of Stage 2 leaves the
\* exit code of Stage 1 at 0, and every store after the handoff is made by
\* Stage 2.
C13_FireAndForget == []HandoffReturns /\ [][HandoffWrites]_vars

\* Stage 1 has ended with exit code 0 while the installer started by its
\* Stage 2 is still running.
C13_Witness ==
    \E p, q \in Procs :
        /\ HandedOff(p)
        /\ Ended(p)
        /\ proc[p].exitCode = 0
        /\ IsStage2(q) /\ InCycle(q)
        /\ proc[q].install = "running"

----------------------------------------------------------------------------
(* The resolver's download path *)

\* Stage 1 that read a status from which the installer is downloaded.
ReadDownloadStatus(p) ==
    /\ IsStage1(p)
    /\ proc[p].pc # "ObtainInstallerPath"
    /\ proc[p].st \in {"readyToDownload", "errorDownloading"}

\* C14: with status readyToDownload or errorDownloading the resolver
\* queries the release metadata exactly once and downloads at most once,
\* and only after the query gave a download descriptor; a failed query, a
\* 'no update' answer and a failed download each make the resolver fail
\* without a retry, and a successful download's path is returned unchanged.
C14_ResolverDownloads ==
    \A p \in Procs :
        ReadDownloadStatus(p) =>
            LET r == proc[p]
            IN  /\ r.queries <= 1 /\ r.downloads <= 1
                /\ r.pc = "GetVersionInfo" => r.queries = 0 /\ r.downloads = 0
                /\ r.pc = "Download" => r.meta = "descriptor" /\ r.downloads = 0
                /\ r.downloads = 1 => r.queries = 1 /\ r.meta = "descriptor"
                /\ Resolved(p) =>
                      /\ r.queries = 1
                      /\ r.meta = "error" =>
                            /\ r.err = "MetadataUnavailable"
                            /\ r.installer = None /\ r.downloads = 0
                      /\ r.meta = "noUpdate" =>
                            /\ r.err = "NoUpdateAvailable"
                            /\ r.installer = None /\ r.downloads = 0
                      /\ r.meta = "descriptor" =>
                            /\ r.downloads = 1
                            /\ r.installer = r.downloaded
                            /\ r.downloaded = None => r.err = "DownloadFailed"
                            /\ r.downloaded # None => r.err # "DownloadFailed"
                      /\ r.err \in {"MetadataUnavailable", "NoUpdateAvailable",
                                    "DownloadFailed"} =>
                            r.pc \in {"Stage1Return", "done"} /\ ~r.result

\* After status errorDownloading the resolver queried once, downloaded once
\* and returned the path the download gave.
C14_Witness ==
    \E p \in Procs :
        /\ ReadDownloadStatus(p)
        /\ Resolved(p)
        /\ proc[p].st = "errorDownloading"
        /\ proc[p].queries = 1
        /\ proc[p].downloads = 1
        /\ proc[p].downloaded # None
        /\ proc[p].installer = proc[p].downloaded

----------------------------------------------------------------------------
(* Termination of Stage 2 *)

\* Stage 2 is blocked on its installer.
Waiting(p) == proc[p].pc \in {"WaitInstaller", "MsiRunning"}

\* One Stage 2 at a time; while it waits Stage 2 has stored nothing, and a
\* Stage 2 that returned has seen its installer run end.
WaitWritesNothing ==
    /\ Cardinality({p \in Procs : IsStage2(p)}) <= 1
    /\ \A p \in Procs :
          /\ Waiting(p) => proc[p].writes = <<>> /\ proc[p].install = "running"
          /\ (IsStage2(p) /\ Ended(p) /\ ~proc[p].crashed) =>
                proc[p].install \in {"ok", "failed"}

\* Nothing but the end of the installer run takes Stage 2 out of its wait.
OnlyInstallerEndsWait ==
    \A p \in Procs :
        (Waiting(p) /\ proc'[p] # proc[p]) =>
            /\ proc'[p].install \in {"ok", "failed"}
            /\ proc'[p].pc \in {"Remove", "Stage2Return"}

\* The Stage 2 of the running cycle has ended, after its installer run, with
\* one of the two terminal statuses.
Stage2Done ==
    \E p \in Procs :
        /\ Ended(p)
        /\ IsStage2(p)
        /\ proc[p].install \in {"ok", "failed"}
        /\ ExitState(p).state \in {"upToDate", "errorDownloading"}

\* C15: Stage 2 ends exactly when its installer run ends. If an installer
\* that was started always exits, every run of Stage 2 eventually ends with
\* the status upToDate or errorDownloading; while the installer has not
\* exited Stage 2 stays in its wait, having stored nothing, and no timeout
\* or cancellation takes it out.
C15_Stage2Terminates ==
    /\ []WaitWritesNothing
    /\ [][OnlyInstallerEndsWait]_vars
    /\ (\E p \in Procs : proc[p].pc = "Stage2") ~> Stage2Done

\* Stage 2 ended after its bootstrapper exited.
C15_Witness ==
    \E p \in Procs :
        /\ IsStage2(p)
        /\ Ended(p)
        /\ "bootstrapper" \in Range(proc[p].launched)
        /\ proc[p].install \in {"ok", "failed"}
        /\ ExitState(p).state \in {"upToDate", "errorDownloading"}

----------------------------------------------------------------------------
(* What decides the stage, and what Stage 2 depends on *)

Stage1Pcs ==
    {"ObtainInstallerPath", "GetVersionInfo", "Download", "CheckInstaller",
     "CopySelf", "FindWindow", "LaunchStage2", "Stage1Return"}
Stage2Pcs ==
    {"Stage2", "MsiRunning", "WaitInstaller", "Remove", "Store", "Relaunch",
     "Stage2Return"}

\* The stage a process runs is the one its action argument names, whatever
\* the persisted state.
StageByAction ==
    \A p \in Procs :
        /\ proc[p].pc \in Stage1Pcs => IsStage1(p)
        /\ proc[p].pc \in Stage2Pcs => IsStage2(p)
        /\ IsStage1(p) => proc[p].branch = "none" /\ proc[p].install = "none"
        /\ IsStage2(p) => proc[p].st = "none" /\ proc[p].queries = 0
        /\ (Ended(p) /\ IsStage1(p)) => proc[p].st # "none"
        /\ (Ended(p) /\ IsStage2(p) /\ ~proc[p].crashed) => proc[p].branch # "none"

\* What a Stage 2 that returned has done, as a function of its arguments
\* (the restart flag), of the installer's outcome and of the outcome of the
\* host's launch; the persisted state at its entry is not an argument.
Stage2ExitCode(install, launch, relaunched) ==
    IF install = "ok" /\ (~launch \/ relaunched) THEN 0 ELSE 1
Stage2Statuses(install, launch, relaunched) ==
    IF install = "ok"
    THEN IF ~launch \/ relaunched THEN <<"upToDate">>
                                  ELSE <<"upToDate", "errorDownloading">>
    ELSE <<"errorDownloading">>
Stage2HostArgs(install, launch) ==
    IF install = "ok" /\ launch THEN <<UPDATE_REPORT_SUCCESS>> ELSE <<>>

Stage2Outcome ==
    \A p \in Procs :
        (IsStage2(p) /\ Ended(p) /\ ~proc[p].crashed) =>
            LET r == proc[p]
                relaunched == r.err # "RestartLaunchFailed"
                statuses == Stage2Statuses(r.install, r.launch, relaunched)
            IN  /\ r.exitCode = Stage2ExitCode(r.install, r.launch, relaunched)
                /\ r.hostArgs = Stage2HostArgs(r.install, r.launch)
                /\ "host" \in Range(r.launched) <=>
                      r.install = "ok" /\ r.launch /\ relaunched
                /\ Len(r.writes) = Len(statuses)
                /\ \A i \in 1..Len(statuses) :
                      /\ r.writes[i].state = statuses[i]
                      /\ r.writes[i].downloadedInstallerFilename = <<>>
                /\ ExitState(p).state = statuses[Len(statuses)]
                /\ ExitState(p).downloadedInstallerFilename = <<>>

\* A store of Stage 2 writes the same status and filename over every
\* persisted state.
Stage2StoreIgnoresState ==
    \A p \in Procs :
        (proc[p].pc \in Stage2Pcs /\ proc'[p].writes # proc[p].writes) =>
            /\ proc'[p].writes = Append(proc[p].writes, state')
            /\ \/ \A s \in UpdateStates : state' = SuccessStore(s, now)
               \/ \A s \in UpdateStates : state' = FailureStore(s, now)

\* C16: the action argument alone decides which stage runs, and Stage 2
\* does not depend on the persisted state: what it does, its exit code and
\* the status and filename it leaves are the same for every persisted state
\* at its entry, given the same arguments and the same outcomes of the
\* installer and of the host's launch.
C16_Stage2IgnoresState ==
    /\ [](StageByAction /\ Stage2Outcome)
    /\ [][Stage2StoreIgnoresState]_vars

\* A Stage 2 started in a cycle that began with readyToInstall and a
\* filename ended with exit code 0, the status upToDate and no filename.
C16_Witness ==
    \E p \in Procs :
        /\ IsStage2(p)
        /\ Ended(p)
        /\ InCycle(p)
        /\ proc[p].cycleFrom = "readyToInstall"
        /\ proc[p].exitCode = 0
        /\ ExitState(p).state = "upToDate"
        /\ ExitState(p).downloadedInstallerFilename = <<>>

----------------------------------------------------------------------------
(* The order of Stage 1 *)

ResolverFailures ==
    {"MetadataUnavailable", "NoUpdateAvailable", "DownloadFailed",
     "MissingDownloadedInstaller", "InvalidStateForInstall"}

\* C17: the steps of Stage 1 are in a fixed order, each the precondition of
\* the next: the host is asked to close only after the installer path was
\* resolved and the self-copy succeeded, and the elevated launch is
\* requested only after that; a failure of the resolver or of the self-copy
\* neither closes the host nor launches Stage 2.
C17_Stage1Order ==
    \A p \in Procs :
        IsStage1(p) =>
            LET r == proc[p]
                resolved == r.installer # None
                requested == r.arguments # <<>>
            IN  /\ r.pc = "CopySelf" => resolved /\ ~r.copied
                /\ r.copied => resolved
                /\ r.pc = "FindWindow" => r.copied /\ r.closes = 0 /\ ~requested
                /\ r.pc = "LaunchStage2" => r.copied /\ ~requested
                /\ r.closes <= 1
                /\ r.closes = 1 => r.copied /\ r.window
                /\ requested =>
                      /\ r.copied
                      /\ r.pc \in {"Stage1Return", "done"}
                      /\ r.closes = 1 <=> r.window
                /\ r.launched # <<>> => requested /\ r.launched = <<"stage2">>
                /\ r.err \in ResolverFailures =>
                      ~resolved /\ ~r.copied /\ r.closes = 0
                /\ r.err \in ResolverFailures \cup {"SelfCopyFailed"} =>
                      /\ ~r.copied
                      /\ r.closes = 0
                      /\ ~requested
                      /\ r.launched = <<>>
                      /\ r.pc \in {"Stage1Return", "done"}

\* Stage 1 resolved the path, copied itself, asked the running host to
\* close and then started Stage 2.
C17_Witness ==
    \E p \in Procs :
        /\ IsStage1(p)
        /\ proc[p].installer # None
        /\ proc[p].copied
        /\ proc[p].closes = 1
        /\ proc[p].launched = <<"stage2">>

----------------------------------------------------------------------------
(* The restart owed to a host that was closed *)

\* The Stage 2 that Stage 1 started.
Handed == {q \in Procs : IsStage2(q) /\ InCycle(q)}

\* Stage 1 asked a running host to close, and it and the Stage 2 it started
\* have ended.
RestartOwedCycleEnded(p) ==
    /\ IsStage1(p)
    /\ proc[p].closes = 1
    /\ Ended(p)
    /\ proc[p].launched # <<>> => \E q \in Handed : Ended(q)

Accepted(p) == proc[p].launched = <<"stage2">>
Installed == \E q \in Handed : proc[q].install = "ok"
InstallFailed == \E q \in Handed : proc[q].install = "failed"
RelaunchRequested == \E q \in Handed : proc[q].hostArgs # <<>>
Relaunched == \E q \in Handed : "host" \in Range(proc[q].launched)

\* When the launch of Stage 2 or the installer failed, the host stays
\* closed, no start of the host was requested, and the status is
\* errorDownloading.
RestartDropped(p) ==
    (~Accepted(p) \/ InstallFailed) =>
        /\ ~hostWindow
        /\ ~RelaunchRequested
        /\ ~Relaunched
        /\ state.state = "errorDownloading"

----------------------------------------------------------------------------
(* Installer runs in flight *)

\* The Stage 1 processes the callers started, the Stage 2 processes, and the
\* Stage 2 processes whose installer is running.
Invocations == {p \in Procs : proc[p].by \in Callers \cup {"env"}}
Stage2s == {q \in Procs : proc[q].by = "stage1"}
InFlight == {q \in Procs : proc[q].install = "running"}

\* The installer starts in what a process launched.
InstallerStarts(launched) ==
    Cardinality({i \in 1..Len(launched) : launched[i] \in {"msi", "bootstrapper"}})

\* C19: one invocation of Stage 1 starts at most one Stage 2, and a Stage 2
\* runs the installer at most once, so no more installer runs are in flight
\* than Stage 1 was invoked: at most one with one invocation. Two
\* invocations of Stage 1 that run at the same time can have two installer
\* runs in flight at once.
C19_InstallerRuns ==
    /\ \A p \in Invocations : proc[p].launched \in {<<>>, <<"stage2">>}
    /\ Cardinality(Stage2s) =
          Cardinality({p \in Invocations : proc[p].launched = <<"stage2">>})
    /\ \A q \in Procs :
          /\ InstallerStarts(proc[q].launched) <= 1
          /\ proc[q].install # "none" /\ proc[q].branch = "msi" =>
                InstallerStarts(proc[q].launched) = 1
          /\ q \in InFlight => q \in Stage2s /\ InstallerStarts(proc[q].launched) = 1
    /\ Cardinality(InFlight) <= Cardinality(Stage2s)
    /\ Cardinality(Stage2s) <= Cardinality(Invocations)
    /\ Cardinality(Invocations) = 1 => Cardinality(InFlight) <= 1

\* Two callers started Stage 1 and the installers of both cycles are
\* running at the same time.
C19_Witness ==
    /\ Cardinality(Invocations) = 2
    /\ Cardinality(InFlight) = 2

=============================================================================
